---- MODULE Spec2Model ----
(***************************************************************************)
(* A model of the vigenere library (package vigenere) and of a caller that  *)
(* constructs one Vigenere context and then calls its methods.              *)
(*                                                                          *)
(* A Go string is modelled as the sequence of the code points that          *)
(* `for _, r := range str` yields (the strings of the model are valid       *)
(* UTF-8); `len(str)` is the number of bytes of its UTF-8 encoding.  An     *)
(* alphabet is a sequence of such strings, as in `Alphabets []string`.      *)
(***************************************************************************)
EXTENDS Integers, Sequences, FiniteSets, TLC

VARIABLES v, built, pc, call

vars == <<v, built, pc, call>>

-----------------------------------------------------------------------------
(* Bounds of the model.                                                     *)

\* Longest text and secret (in code points) the caller passes, besides the
\* test vectors.
MaxTextLen == 2

\* Longest custom alphabet the caller builds from SymbolPool, besides the
\* alphabets of the tests.
MaxAlphabetLen == 3

\* Longest text (in code points) handed to GenerateSecretKey.
MaxKeyLen == 2

\* Largest number of draws a finite entropy reader serves before it fails.
MaxGood == 1

-----------------------------------------------------------------------------
(* Strings.                                                                 *)

\* The nil error.
Nil == "nil"

\* The nil *Vigenere.
NoVigenere == [nil |-> TRUE]

\* The code points of the model: 'A', 'B' (one byte each) and U+00E9
\* (two bytes in UTF-8).
Runes == {65, 66, 233}

\* Number of bytes of the UTF-8 encoding of code point r.
UTF8Len(r) ==
    IF r < 128 THEN 1 ELSE IF r < 2048 THEN 2 ELSE IF r < 65536 THEN 3 ELSE 4

\* Go's len(str): the number of bytes of the string.
RECURSIVE len(_)
len(str) == IF str = <<>> THEN 0 ELSE UTF8Len(Head(str)) + len(Tail(str))

Letters ==
    << "A", "B", "C", "D", "E", "F", "G", "H", "I", "J", "K", "L", "M",
       "N", "O", "P", "Q", "R", "S", "T", "U", "V", "W", "X", "Y", "Z" >>

\* The string spelled by a tuple of capital letters, as code points.
S(w) == [i \in DOMAIN w |-> 64 + (CHOOSE k \in DOMAIN Letters : Letters[k] = w[i])]

Range(f) == {f[i] : i \in DOMAIN f}

-----------------------------------------------------------------------------
(* The library.                                                             *)

\* GenerateDefaultAlphabets with the loop ending one letter early (i < 90).
GenerateDefaultAlphabetsShort == [i \in 1 .. 25 |-> <<64 + i>>]

\* GenerateDefaultAlphabets: the strings of the code points 65 .. 90.
GenerateDefaultAlphabets == [i \in 1 .. 26 |-> <<64 + i>>]

\* The entropy sources of the model: crypto/rand's rand.Reader, whose reads
\* never fail, and for k in 0 .. MaxGood a reader that serves k draws and
\* fails on every later read (iotest.ErrReader is the reader with k = 0).
RandReader == [kind |-> "rand.Reader", left |-> 0]
FiniteReader(k) == [kind |-> "finite", left |-> k]
Sources == {RandReader} \cup {FiniteReader(k) : k \in 0 .. MaxGood}

\* ScanDuplicates with each alphabet compared with the one before it only,
\* not with all the earlier ones.
RECURSIVE ScanAdjacentDuplicates(_, _, _)
ScanAdjacentDuplicates(alphabets, i, set) ==
    IF i > Len(alphabets) THEN 0
    ELSE IF i > 1 /\ alphabets[i] = alphabets[i - 1] THEN i
    ELSE ScanAdjacentDuplicates(alphabets, i + 1, set \cup {alphabets[i]})

\* The loop of NewVigenere over the alphabets: 0 when no alphabet is already
\* in the set, else the (1-based) position of the first one that is.
RECURSIVE ScanDuplicates(_, _, _)
ScanDuplicates(alphabets, i, set) ==
    IF i > Len(alphabets) THEN 0
    ELSE IF alphabets[i] \in set THEN i
    ELSE ScanDuplicates(alphabets, i + 1, set \cup {alphabets[i]})

NewVigenere(alphabets) ==
    LET a   == IF Len(alphabets) = 0 THEN GenerateDefaultAlphabets ELSE alphabets
        dup == ScanDuplicates(a, 1, {})
    IN  IF dup # 0
        THEN [v |-> NoVigenere, err |-> "errDuplicateAlphabets", at |-> dup]
        ELSE [v   |-> [Alphabets    |-> a,
                       Length       |-> Len(a),
                       RandomSource |-> RandReader],
              err |-> Nil, at |-> 0]

\* MatchIndices yielding index 0 for a string that no entry equals, instead
\* of no index.
MatchIndicesOrZero(alphabets, s, i) ==
    LET hits == {k \in i .. Len(alphabets) : alphabets[k] = s}
    IN  IF hits = {} THEN <<0>>
        ELSE <<(CHOOSE k \in hits : \A h \in hits : k <= h) - 1>>

\* The inner loop of ConvertToNumeric: the (0-based) index of every entry of
\* the alphabets, from position i on, that equals the string s.
RECURSIVE MatchIndices(_, _, _)
MatchIndices(alphabets, s, i) ==
    IF i > Len(alphabets) THEN <<>>
    ELSE (IF alphabets[i] = s THEN <<i - 1>> ELSE <<>>)
         \o MatchIndices(alphabets, s, i + 1)

\* ConvertToNumeric going through the bytes of str instead of its code
\* points: the bytes of a code point of more than one byte equal no symbol
\* of the model.
RECURSIVE ConvertToNumericOfBytes(_, _)
ConvertToNumericOfBytes(ctx, str) ==
    IF str = <<>> THEN <<>>
    ELSE (IF UTF8Len(Head(str)) = 1
          THEN MatchIndices(ctx.Alphabets, <<Head(str)>>, 1)
          ELSE <<>>)
         \o ConvertToNumericOfBytes(ctx, Tail(str))

RECURSIVE ConvertToNumeric(_, _)
ConvertToNumeric(ctx, str) ==
    IF str = <<>> THEN <<>>
    ELSE MatchIndices(ctx.Alphabets, <<Head(str)>>, 1)
         \o ConvertToNumeric(ctx, Tail(str))

\* Whether every v.Alphabets[num] of ConvertToString is within the slice (a
\* Go index expression out of range is a run-time panic).
IndexInRange(ctx, numbers) ==
    \A i \in DOMAIN numbers : 0 <= numbers[i] /\ numbers[i] < Len(ctx.Alphabets)

RECURSIVE ConvertToString(_, _)
ConvertToString(ctx, numbers) ==
    IF numbers = <<>> THEN <<>>
    ELSE ctx.Alphabets[Head(numbers) + 1] \o ConvertToString(ctx, Tail(numbers))

Panic == "panic: index out of range"

\* EncryptLoop stopping one element early (i < len - 1 for i < len).
RECURSIVE EncryptLoopShort(_, _, _, _, _)
EncryptLoopShort(ctx, numericPlaintext, numericSecret, i, ciphertext) ==
    IF i >= Len(numericPlaintext) THEN [nums |-> ciphertext, panic |-> FALSE]
    ELSE IF i > Len(numericSecret) THEN [nums |-> ciphertext, panic |-> TRUE]
    ELSE EncryptLoopShort(ctx, numericPlaintext, numericSecret, i + 1,
            Append(ciphertext,
                   (numericSecret[i] + numericPlaintext[i]) % ctx.Length))

\* The loop of Encrypt: numericSecret[i] is read for every i of
\* numericPlaintext and panics where numericSecret has no element i.
RECURSIVE EncryptLoop(_, _, _, _, _)
EncryptLoop(ctx, numericPlaintext, numericSecret, i, ciphertext) ==
    IF i > Len(numericPlaintext) THEN [nums |-> ciphertext, panic |-> FALSE]
    ELSE IF i > Len(numericSecret) THEN [nums |-> ciphertext, panic |-> TRUE]
    ELSE EncryptLoop(ctx, numericPlaintext, numericSecret, i + 1,
            Append(ciphertext,
                   (numericSecret[i] + numericPlaintext[i]) % ctx.Length))

EncryptLengthCheck(plaintext, secret) == len(secret) < len(plaintext)

Encrypt(ctx, plaintext, secret) ==
    IF EncryptLengthCheck(plaintext, secret)
    THEN [out |-> <<>>, err |-> "errEncryptLengthNotEqual", nums |-> <<>>]
    ELSE LET numericPlaintext == ConvertToNumeric(ctx, plaintext)
             numericSecret    == ConvertToNumeric(ctx, secret)
             r == EncryptLoop(ctx, numericPlaintext, numericSecret, 1, <<>>)
         IN  IF r.panic \/ ~IndexInRange(ctx, r.nums)
             THEN [out |-> <<>>, err |-> Panic, nums |-> r.nums]
             ELSE [out |-> ConvertToString(ctx, r.nums), err |-> Nil,
                   nums |-> r.nums]

\* DecryptLoop without the addition of Length to a negative difference.
RECURSIVE DecryptLoopUncorrected(_, _, _, _, _)
DecryptLoopUncorrected(ctx, numericCiphertext, numericSecret, i, plaintext) ==
    IF i > Len(numericCiphertext) THEN [nums |-> plaintext, panic |-> FALSE]
    ELSE IF i > Len(numericSecret) THEN [nums |-> plaintext, panic |-> TRUE]
    ELSE DecryptLoopUncorrected(ctx, numericCiphertext, numericSecret, i + 1,
            Append(plaintext, numericCiphertext[i] - numericSecret[i]))

\* The loop of Decrypt.
RECURSIVE DecryptLoop(_, _, _, _, _)
DecryptLoop(ctx, numericCiphertext, numericSecret, i, plaintext) ==
    IF i > Len(numericCiphertext) THEN [nums |-> plaintext, panic |-> FALSE]
    ELSE IF i > Len(numericSecret) THEN [nums |-> plaintext, panic |-> TRUE]
    ELSE LET d == numericCiphertext[i] - numericSecret[i]
             equivalent == IF d < 0 THEN d + ctx.Length ELSE d
         IN  DecryptLoop(ctx, numericCiphertext, numericSecret, i + 1,
                         Append(plaintext, equivalent))

DecryptLengthCheck(ciphertext, secret) == len(secret) < len(ciphertext)

Decrypt(ctx, ciphertext, secret) ==
    IF DecryptLengthCheck(ciphertext, secret)
    THEN [out |-> <<>>, err |-> "errDecryptLengthNotEqual", nums |-> <<>>]
    ELSE LET numericCiphertext == ConvertToNumeric(ctx, ciphertext)
             numericSecret     == ConvertToNumeric(ctx, secret)
             r == DecryptLoop(ctx, numericCiphertext, numericSecret, 1, <<>>)
         IN  IF r.panic \/ ~IndexInRange(ctx, r.nums)
             THEN [out |-> <<>>, err |-> Panic, nums |-> r.nums]
             ELSE [out |-> ConvertToString(ctx, r.nums), err |-> Nil,
                   nums |-> r.nums]

\* ValidateScan returning after the first code point it finds in the set.
ValidateScanFirstOnly(set, str, i) ==
    IF i > Len(str) THEN 0
    ELSE IF <<str[i]>> \notin set THEN i
    ELSE 0

\* The loop of ValidateString over the code points of str, given the set of
\* the alphabets: 0 when every string(r) is in the set, else the (1-based)
\* position of the first one that is not.
RECURSIVE ValidateScan(_, _, _)
ValidateScan(set, str, i) ==
    IF i > Len(str) THEN 0
    ELSE IF <<str[i]>> \notin set THEN i
    ELSE ValidateScan(set, str, i + 1)

ValidateString(ctx, str) ==
    LET set == Range(ctx.Alphabets)
        bad == ValidateScan(set, str, 1)
    IN  IF bad # 0
        THEN [valid |-> FALSE, err |-> "errInvalidString", at |-> bad]
        ELSE [valid |-> TRUE, err |-> Nil, at |-> 0]

\* GenerateRandomNumber: rand.Int(v.RandomSource, v.Length).  pick is the
\* number the source yields, any of 0 .. Length - 1.  rand.Int reads nothing
\* from the source when Length is 1, where 0 is the only valid result.
GenerateRandomNumber(ctx, pick) ==
    IF ctx.Length = 1
    THEN [number |-> 0, err |-> Nil, src |-> ctx.RandomSource, read |-> 0]
    ELSE IF ctx.RandomSource = RandReader
    THEN [number |-> pick, err |-> Nil, src |-> ctx.RandomSource, read |-> 1]
    ELSE IF ctx.RandomSource.left > 0
    THEN [number |-> pick, err |-> Nil,
          src |-> FiniteReader(ctx.RandomSource.left - 1), read |-> 1]
    ELSE [number |-> 0, err |-> "errRandomSource", src |-> ctx.RandomSource,
          read |-> 1]

\* The loop of GenerateSecretKey, one iteration per code point of the
\* plaintext (n of them); tape[i] is what the source yields at iteration i.
RECURSIVE SecretKeyLoop(_, _, _, _, _, _)
SecretKeyLoop(ctx, n, tape, i, secret, reads) ==
    IF i > n
    THEN [nums |-> secret, err |-> Nil, src |-> ctx.RandomSource, reads |-> reads]
    ELSE LET d == GenerateRandomNumber(ctx, tape[i])
         IN  IF d.err # Nil
             THEN [nums |-> secret, err |-> d.err, src |-> d.src,
                   reads |-> reads + d.read]
             ELSE SecretKeyLoop([ctx EXCEPT !.RandomSource = d.src], n, tape,
                                i + 1, Append(secret, d.number), reads + d.read)

\* GenerateSecretKey drawing one number per code point of the plaintext found
\* in the alphabet (content-driven) instead of one per code point.
GenerateSecretKeyOfContent(ctx, plaintext, tape) ==
    LET r == SecretKeyLoop(ctx, Len(ConvertToNumeric(ctx, plaintext)), tape,
                           1, <<>>, 0)
    IN  IF r.err # Nil
        THEN [out |-> <<>>, err |-> r.err, nums |-> r.nums, src |-> r.src,
              reads |-> r.reads]
        ELSE [out |-> ConvertToString(ctx, r.nums), err |-> Nil,
              nums |-> r.nums, src |-> r.src, reads |-> r.reads]

\* GenerateSecretKey returning, with the error, the key of the numbers drawn
\* before the failure.
GenerateSecretKeyPartial(ctx, plaintext, tape) ==
    LET r == SecretKeyLoop(ctx, Len(plaintext), tape, 1, <<>>, 0)
    IN  [out |-> ConvertToString(ctx, r.nums), err |-> r.err, nums |-> r.nums,
         src |-> r.src, reads |-> r.reads]

\* GenerateSecretKey; src is the state of the entropy source after the call,
\* reads the number of draws that read the source, nums the numbers drawn.
GenerateSecretKey(ctx, plaintext, tape) ==
    LET r == SecretKeyLoop(ctx, Len(plaintext), tape, 1, <<>>, 0)
    IN  IF r.err # Nil
        THEN [out |-> <<>>, err |-> r.err, nums |-> r.nums, src |-> r.src,
              reads |-> r.reads]
        ELSE IF ~IndexInRange(ctx, r.nums)
        THEN [out |-> <<>>, err |-> Panic, nums |-> r.nums, src |-> r.src,
              reads |-> r.reads]
        ELSE [out |-> ConvertToString(ctx, r.nums), err |-> Nil,
              nums |-> r.nums, src |-> r.src, reads |-> r.reads]

-----------------------------------------------------------------------------
(* The inputs of the caller.                                                *)

\* The symbols custom alphabets are built from: "A", "B", U+00E9 and the
\* two-code-point string "AB".
SymbolPool == {<<65>>, <<66>>, <<233>>, <<65, 66>>}

\* The custom alphabets of TestEncrypt (A .. I) and TestDecrypt (A .. O).
AlphabetAI == [i \in 1 .. 9 |-> <<64 + i>>]
AlphabetAO == [i \in 1 .. 15 |-> <<64 + i>>]

AlphabetInputs ==
    UNION {[1 .. n -> SymbolPool] : n \in 0 .. MaxAlphabetLen}
    \cup {AlphabetAI, AlphabetAO}

HELLO == S(<<"H", "E", "L", "L", "O">>)
PLUTO == S(<<"P", "L", "U", "T", "O">>)
WPFEC == S(<<"W", "P", "F", "E", "C">>)
HI == S(<<"H", "I">>)
EF == S(<<"E", "F">>)
CE == S(<<"C", "E">>)
CCMB == S(<<"C", "C", "M", "B">>)
ADNF == S(<<"A", "D", "N", "F">>)
COOL == S(<<"C", "O", "O", "L">>)

\* The texts of the tests.
TestTexts == {HELLO, PLUTO, WPFEC, HI, EF, CE, CCMB, ADNF, COOL}

Texts == UNION {[1 .. n -> Runes] : n \in 0 .. MaxTextLen} \cup TestTexts

KeyTexts == UNION {[1 .. n -> Runes] : n \in 0 .. MaxKeyLen}

-----------------------------------------------------------------------------
(* The caller: it constructs a context, then calls the methods one after    *)
(* the other; call holds the last call and what it returned, built the      *)
(* alphabets and length the constructor returned.                           *)

NoCall == [op |-> "none"]

Init ==
    /\ v = NoVigenere
    /\ built = NoVigenere
    /\ pc = "start"
    /\ call = NoCall

CallNewVigenere ==
    /\ pc = "start"
    /\ \E alphabets \in AlphabetInputs :
          LET r == NewVigenere(alphabets)
          IN  /\ v' = r.v
              /\ built' = IF r.err = Nil
                          THEN [Alphabets |-> r.v.Alphabets, Length |-> r.v.Length]
                          ELSE NoVigenere
              /\ call' = [op |-> "NewVigenere", alphabets |-> alphabets,
                          err |-> r.err, at |-> r.at]
    /\ pc' = "returned"

\* The caller replaces the RandomSource field of the context.
SetRandomSource ==
    /\ pc = "ready"
    /\ \E s \in Sources \ {v.RandomSource} :
          v' = [v EXCEPT !.RandomSource = s]
    /\ UNCHANGED <<built, pc, call>>

CallValidateString ==
    /\ pc = "ready"
    /\ \E str \in Texts :
          LET r == ValidateString(v, str)
          IN  call' = [op |-> "ValidateString", text |-> str,
                       valid |-> r.valid, err |-> r.err, at |-> r.at]
    /\ pc' = "returned"
    /\ UNCHANGED <<v, built>>

\* CallEncrypt with an Encrypt that stores the number of symbols it encoded
\* in the Length field of the context.
CallEncryptStoringLength ==
    /\ pc = "ready"
    /\ \E plaintext \in Texts, secret \in Texts :
          LET r == Encrypt(v, plaintext, secret)
          IN  /\ call' = [op |-> "Encrypt", text |-> plaintext,
                          secret |-> secret, out |-> r.out, err |-> r.err,
                          nums |-> r.nums]
              /\ v' = [v EXCEPT !.Length = Len(r.nums)]
    /\ pc' = "returned"
    /\ UNCHANGED built

CallEncrypt ==
    /\ pc = "ready"
    /\ \E plaintext \in Texts, secret \in Texts :
          LET r == Encrypt(v, plaintext, secret)
          IN  call' = [op |-> "Encrypt", text |-> plaintext, secret |-> secret,
                       out |-> r.out, err |-> r.err, nums |-> r.nums]
    /\ pc' = "returned"
    /\ UNCHANGED <<v, built>>

CallDecrypt ==
    /\ pc = "ready"
    /\ \E ciphertext \in Texts, secret \in Texts :
          LET r == Decrypt(v, ciphertext, secret)
          IN  call' = [op |-> "Decrypt", text |-> ciphertext, secret |-> secret,
                       out |-> r.out, err |-> r.err, nums |-> r.nums]
    /\ pc' = "returned"
    /\ UNCHANGED <<v, built>>

CallGenerateSecretKey ==
    /\ pc = "ready"
    /\ \E plaintext \in KeyTexts :
       \E tape \in [1 .. Len(plaintext) -> 0 .. v.Length - 1] :
          LET r == GenerateSecretKey(v, plaintext, tape)
          IN  /\ call' = [op |-> "GenerateSecretKey", text |-> plaintext,
                          out |-> r.out, err |-> r.err, nums |-> r.nums,
                          src |-> v.RandomSource, reads |-> r.reads]
              /\ v' = [v EXCEPT !.RandomSource = r.src]
    /\ pc' = "returned"
    /\ UNCHANGED built

\* The caller is done with the result of the last call and goes on to its
\* next call (to NewVigenere again when the construction failed).
Return ==
    /\ pc = "returned"
    /\ pc' = IF v = NoVigenere THEN "start" ELSE "ready"
    /\ call' = NoCall
    /\ UNCHANGED <<v, built>>

Next ==
    \/ CallNewVigenere
    \/ SetRandomSource
    \/ CallValidateString
    \/ CallEncrypt
    \/ CallDecrypt
    \/ CallGenerateSecretKey
    \/ Return

Spec == Init /\ [][Next]_vars

-----------------------------------------------------------------------------
(* What the claims speak of.                                                *)

\* The last call was of op and has returned.
Returned(op) == pc = "returned" /\ call.op = op

\* Every symbol of str is a member of the alphabet of ctx.
Conforms(ctx, str) ==
    \A i \in DOMAIN str : \E k \in DOMAIN ctx.Alphabets : ctx.Alphabets[k] = <<str[i]>>

\* The index of the symbol of code point r in the alphabet of ctx.
IndexOf(ctx, r) == (CHOOSE k \in DOMAIN ctx.Alphabets : ctx.Alphabets[k] = <<r>>) - 1

\* The concatenation of the strings of a sequence of strings.
RECURSIVE Concat(_)
Concat(ss) == IF ss = <<>> THEN <<>> ELSE Head(ss) \o Concat(Tail(ss))

\* The text and the secret of the last call conform to the alphabet and the
\* secret has at least as many symbols as the text.
ValidOperands ==
    /\ Conforms(v, call.text)
    /\ Conforms(v, call.secret)
    /\ Len(call.secret) >= Len(call.text)

\* C1. Round trip: when Encrypt is called with a plaintext and a secret that
\* conform to the alphabet, the secret with at least as many symbols as the
\* plaintext, it returns no error, and Decrypt of its output with the same
\* secret returns the plaintext and no error.
C1_RoundTrip ==
    (Returned("Encrypt") /\ ValidOperands)
        => /\ call.err = Nil
           /\ Decrypt(v, call.out, call.secret).err = Nil
           /\ Decrypt(v, call.out, call.secret).out = call.text

\* The symbols Alphabet[(index(p[i]) + index(s[i])) mod Length] for i in p.
ExpectedCipher(ctx, p, s) ==
    Concat([i \in DOMAIN p |->
        ctx.Alphabets[((IndexOf(ctx, p[i]) + IndexOf(ctx, s[i])) % ctx.Length) + 1]])

\* The symbols Alphabet[(index(c[i]) - index(s[i])) mod Length] for i in c.
ExpectedPlain(ctx, c, s) ==
    Concat([i \in DOMAIN c |->
        ctx.Alphabets[((IndexOf(ctx, c[i]) - IndexOf(ctx, s[i])) % ctx.Length) + 1]])

\* C2. Encrypt result: for a conforming plaintext p and a conforming secret s
\* with at least as many symbols as p, Encrypt returns no error and the
\* symbols Alphabet[(index(p[i]) + index(s[i])) mod Length], the same as with
\* the first len(p) symbols of s alone.
C2_EncryptResult ==
    (Returned("Encrypt") /\ ValidOperands)
        => /\ call.err = Nil
           /\ call.out = ExpectedCipher(v, call.text, call.secret)
           /\ Encrypt(v, call.text, SubSeq(call.secret, 1, Len(call.text))).out
                 = call.out

\* C3. Decrypt result: for a conforming ciphertext c and a conforming secret
\* s with at least as many symbols as c, Decrypt returns no error and the
\* symbols Alphabet[(index(c[i]) - index(s[i])) mod Length].
C3_DecryptResult ==
    (Returned("Decrypt") /\ ValidOperands)
        => /\ call.err = Nil
           /\ call.out = ExpectedPlain(v, call.text, call.secret)

\* C4. Length mismatch: for a text and a secret that are Symbol Strings of
\* the alphabet, Encrypt (Decrypt) returns its length error, with the empty
\* string, exactly when the secret has fewer symbols than the text.
C4_LengthMismatch ==
    /\ (Returned("Encrypt") /\ Conforms(v, call.text) /\ Conforms(v, call.secret))
          => ((call.err = "errEncryptLengthNotEqual" /\ call.out = <<>>)
                 <=> Len(call.secret) < Len(call.text))
    /\ (Returned("Decrypt") /\ Conforms(v, call.text) /\ Conforms(v, call.secret))
          => ((call.err = "errDecryptLengthNotEqual" /\ call.out = <<>>)
                 <=> Len(call.secret) < Len(call.text))

\* C5. ValidateString returns (true, nil) exactly when every symbol of the
\* text is in the alphabet, and otherwise (false, errInvalidString), having
\* stopped at the first symbol that is not in the alphabet.
C5_ValidateString ==
    Returned("ValidateString")
        => /\ (call.valid /\ call.err = Nil) <=> Conforms(v, call.text)
           /\ (~call.valid /\ call.err = "errInvalidString")
                 <=> ~Conforms(v, call.text)
           /\ ~call.valid
                 => /\ call.at \in DOMAIN call.text
                    /\ ~Conforms(v, <<call.text[call.at]>>)
                    /\ Conforms(v, SubSeq(call.text, 1, call.at - 1))
           /\ call.valid => call.at = 0

\* C5 witness: a text rejected at its second symbol, the first conforming.
C5_Witness ==
    /\ Returned("ValidateString")
    /\ ~call.valid
    /\ call.at = 2
    /\ Len(call.text) = 2

\* Some symbol occurs more than once in the sequence.
HasDuplicate(alphabets) ==
    \E i, j \in DOMAIN alphabets : i < j /\ alphabets[i] = alphabets[j]

\* C6. NewVigenere on a non-empty sequence fails with errDuplicateAlphabets
\* and a nil context exactly when a symbol occurs more than once, at the
\* first position that repeats an earlier one; otherwise it returns the
\* sequence as Alphabets, in its order, and its length as Length.
C6_Construction ==
    (Returned("NewVigenere") /\ Len(call.alphabets) > 0)
        => /\ (call.err = "errDuplicateAlphabets" /\ v = NoVigenere)
                 <=> HasDuplicate(call.alphabets)
           /\ HasDuplicate(call.alphabets)
                 => /\ call.at \in DOMAIN call.alphabets
                    /\ \E i \in 1 .. call.at - 1 :
                          call.alphabets[i] = call.alphabets[call.at]
                    /\ ~HasDuplicate(SubSeq(call.alphabets, 1, call.at - 1))
           /\ ~HasDuplicate(call.alphabets)
                 => /\ call.err = Nil
                    /\ v # NoVigenere
                    /\ v.Alphabets = call.alphabets
                    /\ v.Length = Len(call.alphabets)

\* C6 witness: a sequence rejected at its third symbol, which repeats the
\* first and not the second.
C6_Witness ==
    /\ Returned("NewVigenere")
    /\ call.err = "errDuplicateAlphabets"
    /\ call.at = 3
    /\ call.alphabets[1] = call.alphabets[3]
    /\ call.alphabets[2] # call.alphabets[3]

\* Every symbol of the alphabet is one code point.
SingleRuneAlphabet(ctx) == \A k \in DOMAIN ctx.Alphabets : Len(ctx.Alphabets[k]) = 1

\* The entropy source served every draw of the last GenerateSecretKey call.
NoDrawFails ==
    \/ call.src = RandReader
    \/ call.src.left >= Len(call.text)
    \/ v.Length = 1

\* C7. Key length: with an entropy source that does not fail,
\* GenerateSecretKey returns no error and a key made of exactly as many
\* alphabet symbols as the text has symbol positions, whatever the text.
C7_KeyLength ==
    Returned("GenerateSecretKey")
        => /\ NoDrawFails => call.err = Nil
           /\ call.err = Nil
                 => /\ Len(call.nums) = Len(call.text)
                    /\ \A i \in DOMAIN call.nums : call.nums[i] \in 0 .. v.Length - 1
                    /\ call.out = Concat([i \in DOMAIN call.nums |->
                                             v.Alphabets[call.nums[i] + 1]])
                    /\ SingleRuneAlphabet(v) => Len(call.out) = Len(call.text)

\* C7 witness: a key of two symbols for a text of two symbols that are not
\* both in the alphabet.
C7_Witness ==
    /\ Returned("GenerateSecretKey")
    /\ call.src = RandReader
    /\ call.err = Nil
    /\ Len(call.text) = 2
    /\ ~Conforms(v, call.text)
    /\ Len(call.out) = 2

\* C8. Entropy failure: when a draw fails, GenerateSecretKey returns the
\* error of the source with the empty key, and has read the source once for
\* each draw that succeeded and once for the draw that failed, no more.
C8_EntropyFailure ==
    (Returned("GenerateSecretKey") /\ call.err # Nil)
        => /\ call.err = "errRandomSource"
           /\ call.out = <<>>
           /\ call.src # RandReader
           /\ Len(call.nums) = call.src.left
           /\ call.reads = Len(call.nums) + 1
           /\ call.reads <= Len(call.text)

\* C8 witness: the second draw fails after the first one succeeded.
C8_Witness ==
    /\ Returned("GenerateSecretKey")
    /\ call.err = "errRandomSource"
    /\ Len(call.nums) = 1
    /\ call.reads = 2

\* C9 as stated. Length preservation: whenever Encrypt or Decrypt returns
\* without error, its output is made of exactly as many symbols as the text.
C9_LengthPreservation ==
    ((Returned("Encrypt") \/ Returned("Decrypt")) /\ call.err = Nil)
        => Len(call.nums) = Len(call.text)

\* C9 as amended. Length preservation for conforming texts: whenever Encrypt
\* or Decrypt returns without error for a text whose symbols are all in the
\* alphabet, its output is made of exactly as many alphabet symbols as the
\* text has symbols.
C9_LengthPreservationConforming ==
    ((Returned("Encrypt") \/ Returned("Decrypt"))
         /\ call.err = Nil /\ Conforms(v, call.text))
        => /\ Len(call.nums) = Len(call.text)
           /\ call.out = Concat([i \in DOMAIN call.nums |->
                                    v.Alphabets[call.nums[i] + 1]])
           /\ SingleRuneAlphabet(v) => Len(call.out) = Len(call.text)

\* C9 witness: Encrypt of a conforming text of two symbols with a longer
\* secret returns two symbols.
C9_Witness ==
    /\ Returned("Encrypt")
    /\ call.err = Nil
    /\ Conforms(v, call.text)
    /\ Len(call.text) = 2
    /\ Len(call.secret) > 2
    /\ Len(call.out) = 2

\* The context as the constructor returned it.
AsBuilt ==
    [Alphabets |-> built.Alphabets, Length |-> built.Length,
     RandomSource |-> RandReader]

\* C10. Purity and determinism: whatever calls were made on the context and
\* whatever its entropy source has become, its Alphabets and Length are those
\* of the construction, and what Encrypt and Decrypt return is what they
\* return on the context as constructed for the same text and secret.
C10_Purity ==
    /\ built # NoVigenere
          => /\ v # NoVigenere
             /\ v.Alphabets = built.Alphabets
             /\ v.Length = built.Length
    /\ Returned("Encrypt")
          => /\ call.out = Encrypt(AsBuilt, call.text, call.secret).out
             /\ call.err = Encrypt(AsBuilt, call.text, call.secret).err
    /\ Returned("Decrypt")
          => /\ call.out = Decrypt(AsBuilt, call.text, call.secret).out
             /\ call.err = Decrypt(AsBuilt, call.text, call.secret).err

\* C10 witness: Encrypt returns a ciphertext of two symbols on a context
\* whose entropy source has been replaced and is exhausted.
C10_Witness ==
    /\ Returned("Encrypt")
    /\ v.RandomSource = FiniteReader(0)
    /\ call.err = Nil
    /\ Len(call.out) = 2

\* The 26 capital letters A to Z, in order, each as a string.
CapitalLetters == [i \in DOMAIN Letters |-> S(<<Letters[i]>>)]

\* C11. Default alphabet: NewVigenere called with a nil or empty sequence
\* returns no error and a context whose Alphabets is the 26 capital letters
\* A to Z in order (A at index 0, Z at index 25) and whose Length is 26.
C11_DefaultAlphabet ==
    (Returned("NewVigenere") /\ Len(call.alphabets) = 0)
        => /\ call.err = Nil
           /\ v # NoVigenere
           /\ v.Alphabets = CapitalLetters
           /\ v.Length = 26
           /\ IndexOf(v, 65) = 0
           /\ IndexOf(v, 90) = 25

\* C11 witness: NewVigenere has returned from a call with the empty sequence.
C11_Witness ==
    /\ Returned("NewVigenere")
    /\ call.alphabets = <<>>
    /\ call.err = Nil

\* C12. Decode never sees an out-of-range index: every index that Encrypt,
\* Decrypt and GenerateSecretKey hand to ConvertToString lies in
\* [0, Length), Length being the number of alphabets, so the only panic of
\* these calls is that of numericSecret[i] in the loops of Encrypt and
\* Decrypt, never that of v.Alphabets[num] in ConvertToString.
C12_DecodeInRange ==
    (Returned("Encrypt") \/ Returned("Decrypt") \/ Returned("GenerateSecretKey"))
        => /\ v.Length = Len(v.Alphabets)
           /\ \A i \in DOMAIN call.nums :
                 0 <= call.nums[i] /\ call.nums[i] < v.Length
           /\ Returned("GenerateSecretKey") => call.err # Panic
           /\ (call.err = Panic)
                 => Len(ConvertToNumeric(v, call.secret))
                       < Len(ConvertToNumeric(v, call.text))

\* C12 witness: Decrypt has decoded a symbol whose index is lower than that
\* of the secret's symbol, the difference being negative before correction.
C12_Witness ==
    /\ Returned("Decrypt")
    /\ call.err = Nil
    /\ ValidOperands
    /\ Len(call.text) = 2
    /\ IndexOf(v, call.text[2]) < IndexOf(v, call.secret[2])
    /\ call.nums[2] = IndexOf(v, call.text[2]) - IndexOf(v, call.secret[2]) + v.Length

\* The symbols of str that are in the alphabet of ctx, in order.
ConformingPart(ctx, str) == SelectSeq(str, LAMBDA r : Conforms(ctx, <<r>>))

\* The text or the secret of the last call has a symbol that is not in the
\* alphabet.
UnvalidatedOperands == ~(Conforms(v, call.text) /\ Conforms(v, call.secret))

\* C13 as stated. Skipped validation does not fail loudly: when Encrypt or
\* Decrypt is called on a text or secret with symbols that are not in the
\* alphabet, the secret not shorter than the text, the call does not abort
\* with a run-time failure, and the output it returns is that of the
\* operands without their absent symbols.
C13_NoLoudFailure ==
    ((Returned("Encrypt") \/ Returned("Decrypt"))
         /\ UnvalidatedOperands
         /\ Len(call.secret) >= Len(call.text))
        => /\ call.err # Panic
           /\ call.err = Nil
                 => Len(call.nums) = Len(ConformingPart(v, call.text))

\* C13 as amended. When Encrypt or Decrypt is called on a text or secret with
\* symbols that are not in the alphabet and does not return its length
\* error, the absent symbols are skipped: if the secret has at least as many
\* symbols in the alphabet as the text has, the call returns the output for
\* the operands without their absent symbols; if it has fewer, the call
\* aborts with an index-out-of-range panic.
C13_SkippedValidation ==
    ((Returned("Encrypt") \/ Returned("Decrypt"))
         /\ UnvalidatedOperands
         /\ call.err \notin {"errEncryptLengthNotEqual", "errDecryptLengthNotEqual"})
        => LET p == ConformingPart(v, call.text)
               s == ConformingPart(v, call.secret)
           IN  /\ call.err \in {Nil, Panic}
               /\ (call.err = Panic) <=> (Len(s) < Len(p))
               /\ call.err = Nil
                     => /\ Len(call.nums) = Len(p)
                        /\ Returned("Encrypt")
                              => call.out = ExpectedCipher(v, p, s)
                        /\ Returned("Decrypt")
                              => call.out = ExpectedPlain(v, p, s)

\* C13 witness: Encrypt of a text of two symbols, one of them not in the
\* alphabet, returns one symbol and no error.
C13_Witness ==
    /\ Returned("Encrypt")
    /\ ~Conforms(v, call.text)
    /\ call.err = Nil
    /\ Len(call.text) = 2
    /\ Len(call.nums) = 1

\* The last call handed the indices call.nums to ConvertToString and
\* returned the string call.out it made of them.
Decoded ==
    /\ Returned("Encrypt") \/ Returned("Decrypt") \/ Returned("GenerateSecretKey")
    /\ call.err = Nil

\* C15 as stated. Codec round trip: for every alphabet NewVigenere accepts,
\* symbols of more than one code point included, and every sequence xs of
\* indices in [0, Length), ConvertToNumeric(ConvertToString(xs)) = xs.
C15_CodecRoundTrip ==
    Decoded => ConvertToNumeric(v, call.out) = call.nums

\* C15 as amended. Codec round trip for alphabets of single code points: for
\* every alphabet NewVigenere accepts whose symbols are one code point each
\* and every sequence xs of indices in [0, Length),
\* ConvertToNumeric(ConvertToString(xs)) = xs: one index per symbol, that of
\* the symbol, in order.
C15_CodecRoundTripSingle ==
    (Decoded /\ SingleRuneAlphabet(v))
        => /\ ConvertToNumeric(v, call.out) = call.nums
           /\ Len(call.out) = Len(call.nums)
           /\ \A i \in DOMAIN call.out : IndexOf(v, call.out[i]) = call.nums[i]

\* C15 witness: a key of two different symbols, one of them of two bytes,
\* decoded from two indices.
C15_Witness ==
    /\ Returned("GenerateSecretKey")
    /\ call.err = Nil
    /\ SingleRuneAlphabet(v)
    /\ Len(call.nums) = 2
    /\ call.nums[1] # call.nums[2]
    /\ \E i \in DOMAIN call.out : UTF8Len(call.out[i]) = 2

\* C14. Generated keys are usable: on an alphabet of single code points, for
\* a text that ValidateString accepts and an entropy source that does not
\* fail, key = GenerateSecretKey(text), c = Encrypt(text, key) and
\* d = Decrypt(c, key) all return without error, ValidateString accepts key
\* and c, and d is the text.
C14_GeneratedKeyUsable ==
    (Returned("GenerateSecretKey")
         /\ SingleRuneAlphabet(v)
         /\ ValidateString(v, call.text).valid
         /\ NoDrawFails)
        => LET key == call.out
               c   == Encrypt(v, call.text, key)
               d   == Decrypt(v, c.out, key)
           IN  /\ call.err = Nil
               /\ c.err = Nil
               /\ d.err = Nil
               /\ ValidateString(v, key).valid
               /\ ValidateString(v, c.out).valid
               /\ d.out = call.text

====
